---- MODULE Spec2Model ----
(***************************************************************************)
(* RMM dispatcher (rmmd) of the DEST fork of TF-A: the RMI router          *)
(* rmmd_rmi_handler, the RMM-EL3 interface router rmmd_rmm_el3_handler,    *)
(* the realm registry, the create/fetch lifecycle flags and the EL3        *)
(* secure physical timer with its interrupt handler rmmd_timer_handler.    *)
(*                                                                         *)
(* The C handlers are written as operators from a state record to a state  *)
(* record, statement by statement, so that a handler that calls another    *)
(* (the timer handler calls the RMI router) is the composition the code    *)
(* performs.  One action applies one whole handler.                        *)
(***************************************************************************)
EXTENDS Integers, Sequences, FiniteSets, TLC

(***************************************************************************)
(* Bounds of the model.                                                    *)
(***************************************************************************)
\* register values (realm descriptors, completion values) range over 0..MaxVal
MaxVal == 2
\* the system counter CNTPCT_EL0 reads BootCounter when the dispatcher is set
\* up (the boot stages before it have run) and is followed for MaxTicks ticks
BootCounter == 8
MaxTicks == 1
\* realms the Normal world manages in a run from boot
MaxRealms == 2
\* CNTFRQ_EL0 of the platform, in ticks per second
CntFrq == 20
\* width of a modelled machine word, standing for the 64 bits of uint64_t
WordBits == 16
\* times the handler preempts one invocation of the router
MaxPreempts == 1

(***************************************************************************)
(* Program constants.                                                      *)
(***************************************************************************)
MAX_REALM_NUMS == 4
REALM_DESTROY_TIMER_SECONDS == 1
REALM_RPV_GET_TIMER_SECONDS == 5

\* Function identifiers, by their SMCCC function number (the low 16 bits of
\* the 32-bit identifier 0xc400xxxx).
RMI_REALM_CREATE_FID == 344
RMI_REALM_ACTIVATE_FID == 343
RMI_DATA_DESTROY_ALL_FID == 362
RMI_RPV_GET_FID == 363
RMI_REC_CREATE_FID == 346
RMM_RMI_REQ_COMPLETE == 399
RMM_GTSI_DELEGATE == 432
RMM_GTSI_UNDELEGATE == 433
RMM_ATTEST_GET_REALM_KEY == 434
RMM_ATTEST_GET_PLAT_TOKEN == 435
RMM_EL3_FEATURES == 436
RMM_BOOT_COMPLETE == 463
\* FUNCID_SVE_HINT_MASK << FUNCID_SVE_HINT_SHIFT
SVE_HINT_BIT == 65536
\* the "unknown function" result, (uint64_t)-1 in the code
SMC_UNK == -1

\* CNTPS_CTL_EL1 bits
CNTP_CTL_ENABLE_BIT == 1
CNTP_CTL_IMASK_BIT == 2
CNTP_CTL_ISTATUS_BIT == 4

\* security states / origins of a call
SMC_FROM_SECURE == "SECURE"
SMC_FROM_NON_SECURE == "NON_SECURE"
SMC_FROM_REALM == "REALM"
Origins == {SMC_FROM_SECURE, SMC_FROM_NON_SECURE, SMC_FROM_REALM}

\* interrupt lines seen by plat_ic_acknowledge_interrupt
EL3_TIMER_IRQ == "ARM_IRQ_SEC_PHY_TIMER"
OTHER_IRQ == "OTHER_S_EL1_IRQ"

VARIABLES
  \* rmmd_main.c statics
  rmm_boot_failed, realm_values, realm_count, realm_created,
  realm_created_id, realm_getting_rpv, realm_getting_rpv_id,
  \* rmmd_timer.c statics (its own realm_created is timer_realm_created)
  timer_triggered, realm_descriptor, timer_realm_created, timer_expiration,
  \* secure physical timer and system counter
  cntps_cval, cntps_ctl, cntpct,
  \* build configuration: assert() compiled in or out
  enable_assertions,
  \* boot progress of the dispatcher, core halted
  pc, panicked,
  \* the number of realms the Normal world manages in this run
  max_realms,
  \* what the last handler invocation did: the operation, its events in
  \* program order, the result handed back, and the statics and timer
  \* registers it started from
  op, ev, ret, pre,
  \* progress of the create/activate/complete/fire/complete scenario
  scn

vars == <<rmm_boot_failed, realm_values, realm_count, realm_created,
          realm_created_id, realm_getting_rpv, realm_getting_rpv_id,
          timer_triggered, realm_descriptor, timer_realm_created,
          timer_expiration, cntps_cval, cntps_ctl, cntpct,
          enable_assertions, pc, panicked, max_realms, op, ev, ret,
          pre, scn>>

(***************************************************************************)
(* Machine arithmetic.                                                     *)
(***************************************************************************)
RECURSIVE Pow2(_)
Pow2(n) == IF n = 0 THEN 1 ELSE 2 * Pow2(n - 1)

WordMod == Pow2(WordBits)

\* a value as an unsigned machine word
U64(x) == x % WordMod

\* bit test, as (v & bit) != 0 for a single-bit mask
HasBit(v, bit) == (v \div bit) % 2 = 1

(***************************************************************************)
(* The state record the handlers work on.                                  *)
(***************************************************************************)
NoRet == [kind |-> "none", dst |-> "none", regs |-> <<>>]

Cur ==
  [rmm_boot_failed |-> rmm_boot_failed, realm_values |-> realm_values,
   realm_count |-> realm_count, realm_created |-> realm_created,
   realm_created_id |-> realm_created_id,
   realm_getting_rpv |-> realm_getting_rpv,
   realm_getting_rpv_id |-> realm_getting_rpv_id,
   timer_triggered |-> timer_triggered, realm_descriptor |-> realm_descriptor,
   timer_realm_created |-> timer_realm_created,
   timer_expiration |-> timer_expiration,
   cntps_cval |-> cntps_cval, cntps_ctl |-> cntps_ctl,
   panicked |-> FALSE, ev |-> <<>>, ret |-> NoRet]

\* an event of a handler invocation, kept in program order in ev
Ev(e, a, b) == [e |-> e, a |-> a, b |-> b]

NoPre == [none |-> TRUE]

Emit(s, e) == [s EXCEPT !.ev = Append(@, e)]

\* assert(cond): nothing when it holds or when assertions are compiled out;
\* otherwise the core halts in the assertion handler
assert(s, cond) ==
  IF s.panicked \/ cond \/ ~enable_assertions THEN s
  ELSE [Emit(s, Ev("assert_fail", 0, 0)) EXCEPT !.panicked = TRUE]

(***************************************************************************)
(* Secure physical timer registers.                                        *)
(***************************************************************************)
\* the timer condition: enabled and the counter has reached the comparator
TimerCondition(s) ==
  HasBit(s.cntps_ctl, CNTP_CTL_ENABLE_BIT) /\ cntpct >= s.cntps_cval

read_cntps_ctl_el1(s) ==
  s.cntps_ctl + (IF TimerCondition(s) THEN CNTP_CTL_ISTATUS_BIT ELSE 0)

get_cntp_ctl_istatus(x) == HasBit(x, CNTP_CTL_ISTATUS_BIT)

\* the timer's interrupt line is asserted
TimerIrqAsserted(s) ==
  TimerCondition(s) /\ ~HasBit(s.cntps_ctl, CNTP_CTL_IMASK_BIT)

\* SCR_EL3.FIQ and SCR_EL3.IRQ as read_scr_el3() returns them; the routing
\* bits are programmed by the interrupt management framework
read_scr_el3_fiq == TRUE
read_scr_el3_irq == TRUE

(***************************************************************************)
(* rmmd_timer.c                                                            *)
(***************************************************************************)
\* the comparator value setting_timer computes, in machine arithmetic:
\* read_cntpct_el0() + (time_to_set * freq / 100)
timer_expire(cnt, time_to_set, freq) ==
  U64(cnt + (U64(time_to_set * freq) \div 100))

\* faulty variant: the test for "no value" is inverted
rmmd_timer_set_expiration_inverted(s, rpv_timer_expiration) ==
  IF rpv_timer_expiration # 0
  THEN [s EXCEPT !.timer_expiration = REALM_DESTROY_TIMER_SECONDS]
  ELSE [s EXCEPT !.timer_expiration = rpv_timer_expiration]

\* faulty variant: the value is stored as it comes, 0 included
rmmd_timer_set_expiration_no_fallback(s, rpv_timer_expiration) ==
  [s EXCEPT !.timer_expiration = rpv_timer_expiration]

rmmd_timer_set_expiration(s, rpv_timer_expiration) ==
  IF rpv_timer_expiration = 0
  THEN [s EXCEPT !.timer_expiration = REALM_DESTROY_TIMER_SECONDS]
  ELSE [s EXCEPT !.timer_expiration = rpv_timer_expiration]

\* faulty variant: an arm made while an expiry is pending adds its duration
\* to the comparator
setting_timer_additive(s, time_to_set) ==
  LET a1 == assert(s, read_scr_el3_fiq)
      a2 == assert(a1, read_scr_el3_irq)
      pending == HasBit(s.cntps_ctl, CNTP_CTL_ENABLE_BIT)
                 /\ s.cntps_cval > cntpct
      expire == timer_expire(IF pending THEN s.cntps_cval ELSE cntpct,
                             time_to_set, CntFrq)
      ctl == CNTP_CTL_ENABLE_BIT
      w == Emit([a2 EXCEPT !.cntps_cval = expire, !.cntps_ctl = ctl],
                Ev("arm", time_to_set, expire))
      a3 == assert(w, read_cntps_ctl_el1(w) > cntpct)
      a4 == assert(a3, HasBit(read_cntps_ctl_el1(a3), CNTP_CTL_ENABLE_BIT))
      a5 == assert(a4, ~HasBit(read_cntps_ctl_el1(a4), CNTP_CTL_IMASK_BIT))
  IN IF a2.panicked THEN a2 ELSE a5

setting_timer(s, time_to_set) ==
  LET a1 == assert(s, read_scr_el3_fiq)
      a2 == assert(a1, read_scr_el3_irq)
      expire == timer_expire(cntpct, time_to_set, CntFrq)
      \* ctl = CNTP_CTL_ENABLE_BIT; ctl &= ~CNTP_CTL_IMASK_BIT
      ctl == CNTP_CTL_ENABLE_BIT
      w == Emit([a2 EXCEPT !.cntps_cval = expire, !.cntps_ctl = ctl],
                Ev("arm", time_to_set, expire))
      a3 == assert(w, read_cntps_ctl_el1(w) > cntpct)
      a4 == assert(a3, HasBit(read_cntps_ctl_el1(a3), CNTP_CTL_ENABLE_BIT))
      a5 == assert(a4, ~HasBit(read_cntps_ctl_el1(a4), CNTP_CTL_IMASK_BIT))
  IN IF a2.panicked THEN a2 ELSE a5

\* faulty variant: setup mode arms the fixed delay, whatever was stored
rmmd_timer_init_fixed_delay(s, rd, create) ==
  IF create
  THEN setting_timer([s EXCEPT !.realm_descriptor = rd,
                               !.timer_realm_created = TRUE],
                     REALM_RPV_GET_TIMER_SECONDS)
  ELSE setting_timer([s EXCEPT !.timer_realm_created = FALSE],
                     REALM_DESTROY_TIMER_SECONDS)

rmmd_timer_init(s, rd, create) ==
  IF create
  THEN setting_timer([s EXCEPT !.realm_descriptor = rd,
                               !.timer_realm_created = TRUE],
                     REALM_RPV_GET_TIMER_SECONDS)
  ELSE LET s1 == [s EXCEPT !.timer_realm_created = FALSE]
       IN setting_timer(s1, s1.timer_expiration)

(***************************************************************************)
(* rmmd_main.c: registry, forwarding, the RMI router                       *)
(***************************************************************************)
NULL == -1

\* index of the first live record with this rd, or NULL
get_realm_info_by_rd(s, rd) ==
  LET hits == {i \in 0..(s.realm_count - 1) : s.realm_values[i].rd = rd}
  IN IF hits = {} THEN NULL
     ELSE CHOOSE i \in hits : \A j \in hits : i <= j

\* SMC_RET1(handle, x0): x0 is written to the caller's context, which resumes
SMC_RET1(s, x0) ==
  [s EXCEPT !.ret = [kind |-> "ret", dst |-> "caller", regs |-> <<x0>>]]

\* x = <<x0..x4>>, h = <<x5, x6, x7>> read from handle.  print_realm_info
\* reads r->rd; through a NULL r that is undefined behaviour, resolved by ub
\* to a fault that halts the core or to a read that goes unnoticed.
rmmd_smc_save_values(s, x, h, ub) ==
  LET r == get_realm_info_by_rd(s, x[2])
      s1 == IF x[1] = RMI_DATA_DESTROY_ALL_FID /\ r = NULL
            THEN [Emit(s, Ev("null_deref", x[2], 0))
                    EXCEPT !.panicked = (ub = "fault")]
            ELSE s
  IN IF s1.panicked THEN s1
     ELSE [s1 EXCEPT !.ret = [kind |-> "fwd", dst |-> "ctx", regs |-> x \o h]]

rmmd_smc_forward(s, src_sec_state, dst_sec_state, x, h, ub) ==
  LET s1 == IF src_sec_state = SMC_FROM_NON_SECURE
            THEN rmmd_smc_save_values(s, x, h, ub)
            ELSE s
      regs == IF src_sec_state = SMC_FROM_NON_SECURE THEN x \o h ELSE x
  IN IF s1.panicked THEN s1
     ELSE [Emit(s1, Ev("forward", 0, 0))
             EXCEPT !.ret = [kind |-> "fwd", dst |-> dst_sec_state,
                             regs |-> regs]]

\* faulty variant: the capacity test is off by one (> for >=)
rmi_track_realm_off_by_one(s, c) ==
  IF c.fid = RMI_REALM_CREATE_FID
  THEN IF s.realm_count > MAX_REALM_NUMS
       THEN Emit(s, Ev("too_many_realms", c.x1, 0))
       ELSE [s EXCEPT
               !.realm_values =
                   [i \in DOMAIN @ |->
                      IF i = s.realm_count
                      THEN [rd |-> c.x1, timer_expiration |-> 0]
                      ELSE @[i]],
               !.realm_count = s.realm_count + 1,
               !.realm_created_id = c.x1,
               !.realm_created = TRUE]
  ELSE IF c.fid = RMI_RPV_GET_FID
  THEN [s EXCEPT !.realm_getting_rpv = TRUE]
  ELSE IF c.fid = RMI_REALM_ACTIVATE_FID
  THEN rmmd_timer_init(s, c.x1, FALSE)
  ELSE s

\* faulty variant: the lifecycle flags are set whether or not the record
\* was stored
rmi_track_realm_flags_always(s, c) ==
  IF c.fid = RMI_REALM_CREATE_FID
  THEN LET s1 == IF s.realm_count >= MAX_REALM_NUMS
                 THEN Emit(s, Ev("too_many_realms", c.x1, 0))
                 ELSE [s EXCEPT
                         !.realm_values[s.realm_count] =
                             [rd |-> c.x1, timer_expiration |-> 0],
                         !.realm_count = s.realm_count + 1]
       IN [s1 EXCEPT !.realm_created_id = c.x1, !.realm_created = TRUE]
  ELSE IF c.fid = RMI_RPV_GET_FID
  THEN [s EXCEPT !.realm_getting_rpv = TRUE]
  ELSE IF c.fid = RMI_REALM_ACTIVATE_FID
  THEN rmmd_timer_init(s, c.x1, FALSE)
  ELSE s

\* faulty variant: a create that finds a create pending keeps the first
\* pending identifier
rmi_track_realm_first_pending_kept(s, c) ==
  IF c.fid = RMI_REALM_CREATE_FID
  THEN IF s.realm_count >= MAX_REALM_NUMS
       THEN Emit(s, Ev("too_many_realms", c.x1, 0))
       ELSE LET s1 == Emit([s EXCEPT
                              !.realm_values[s.realm_count] =
                                  [rd |-> c.x1, timer_expiration |-> 0],
                              !.realm_count = s.realm_count + 1],
                           Ev("registry", c.x1, s.realm_count))
                id == IF s.realm_created THEN s.realm_created_id ELSE c.x1
                s2 == Emit([s1 EXCEPT !.realm_created_id = id],
                           Ev("created_id", id, 0))
            IN Emit([s2 EXCEPT !.realm_created = TRUE], Ev("created", 1, 0))
  ELSE IF c.fid = RMI_RPV_GET_FID
  THEN Emit([s EXCEPT !.realm_getting_rpv = TRUE], Ev("getting_rpv", 1, 0))
  ELSE IF c.fid = RMI_REALM_ACTIVATE_FID
  THEN rmmd_timer_init(s, c.x1, FALSE)
  ELSE s

\* lines 428-448: the bookkeeping done on the function identifier, before
\* the origin decides where the call goes
rmi_track_realm(s, c) ==
  IF c.fid = RMI_REALM_CREATE_FID
  THEN IF s.realm_count >= MAX_REALM_NUMS
       THEN Emit(s, Ev("too_many_realms", c.x1, 0))
       ELSE LET s1 == Emit([s EXCEPT
                              !.realm_values[s.realm_count] =
                                  [rd |-> c.x1, timer_expiration |-> 0],
                              !.realm_count = s.realm_count + 1],
                           Ev("registry", c.x1, s.realm_count))
                s2 == Emit([s1 EXCEPT !.realm_created_id = c.x1],
                           Ev("created_id", c.x1, 0))
            IN Emit([s2 EXCEPT !.realm_created = TRUE], Ev("created", 1, 0))
  ELSE IF c.fid = RMI_RPV_GET_FID
  THEN Emit([s EXCEPT !.realm_getting_rpv = TRUE], Ev("getting_rpv", 1, 0))
  ELSE IF c.fid = RMI_REALM_ACTIVATE_FID
  THEN rmmd_timer_init(s, c.x1, FALSE)
  ELSE s

\* faulty variant: the fetch completion stores the value and leaves
\* realm_getting_rpv set
rmi_from_realm_marker_kept(s, c) ==
  IF c.fid = RMM_RMI_REQ_COMPLETE
  THEN LET s1 ==
             IF s.realm_created
             THEN LET t == rmmd_timer_init(
                             [s EXCEPT !.realm_created = FALSE,
                                       !.realm_getting_rpv_id =
                                           s.realm_created_id],
                             s.realm_created_id, TRUE)
                  IN IF t.panicked THEN t
                     ELSE [t EXCEPT !.realm_created_id = 0]
             ELSE IF s.realm_getting_rpv
             THEN rmmd_timer_set_expiration(s, c.x1)
             ELSE s
       IN IF s1.panicked THEN s1
          ELSE rmmd_smc_forward(s1, SMC_FROM_REALM, SMC_FROM_NON_SECURE,
                                <<c.x1, c.x2, c.x3, c.x4, c.x5>>,
                                <<c.x5, c.x6, c.x7>>, c.ub)
  ELSE SMC_RET1(s, SMC_UNK)

\* faulty variant: the post-create completion arms the timer first and
\* clears realm_created afterwards
rmi_from_realm_flag_after_arm(s, c) ==
  IF c.fid = RMM_RMI_REQ_COMPLETE
  THEN LET s1 ==
             IF s.realm_created
             THEN LET u2 == Emit([s EXCEPT !.realm_getting_rpv_id =
                                               s.realm_created_id],
                                 Ev("getting_rpv_id", s.realm_created_id, 0))
                      t == rmmd_timer_init(u2, u2.realm_created_id, TRUE)
                      u1 == Emit([t EXCEPT !.realm_created = FALSE],
                                 Ev("created", 0, 0))
                  IN IF t.panicked THEN t
                     ELSE Emit([u1 EXCEPT !.realm_created_id = 0],
                               Ev("created_id", 0, 0))
             ELSE IF s.realm_getting_rpv
             THEN Emit([rmmd_timer_set_expiration(s, c.x1)
                          EXCEPT !.realm_getting_rpv = FALSE],
                       Ev("getting_rpv", 0, 0))
             ELSE s
       IN IF s1.panicked THEN s1
          ELSE rmmd_smc_forward(s1, SMC_FROM_REALM, SMC_FROM_NON_SECURE,
                                <<c.x1, c.x2, c.x3, c.x4, c.x5>>,
                                <<c.x5, c.x6, c.x7>>, c.ub)
  ELSE SMC_RET1(s, SMC_UNK)

\* lines 470-496: a call trapped from the Realm world
rmi_from_realm(s, c) ==
  IF c.fid = RMM_RMI_REQ_COMPLETE
  THEN LET s1 ==
             IF s.realm_created
             THEN LET u1 == Emit([s EXCEPT !.realm_created = FALSE],
                                 Ev("created", 0, 0))
                      u2 == Emit([u1 EXCEPT !.realm_getting_rpv_id =
                                                u1.realm_created_id],
                                 Ev("getting_rpv_id", u1.realm_created_id, 0))
                      t == rmmd_timer_init(u2, u2.realm_created_id, TRUE)
                  IN IF t.panicked THEN t
                     ELSE Emit([t EXCEPT !.realm_created_id = 0],
                               Ev("created_id", 0, 0))
             ELSE IF s.realm_getting_rpv
             THEN Emit([rmmd_timer_set_expiration(s, c.x1)
                          EXCEPT !.realm_getting_rpv = FALSE],
                       Ev("getting_rpv", 0, 0))
             ELSE s
       IN IF s1.panicked THEN s1
          ELSE rmmd_smc_forward(s1, SMC_FROM_REALM, SMC_FROM_NON_SECURE,
                                <<c.x1, c.x2, c.x3, c.x4, c.x5>>,
                                <<c.x5, c.x6, c.x7>>, c.ub)
  ELSE SMC_RET1(s, SMC_UNK)

\* faulty variant: a create that finds the registry full is answered with an
\* error instead of being forwarded
rmmd_rmi_handler_full_is_error(s, c) ==
  IF s.rmm_boot_failed THEN SMC_RET1(s, SMC_UNK)
  ELSE IF c.src = SMC_FROM_SECURE THEN SMC_RET1(s, SMC_UNK)
  ELSE IF c.fid = RMI_REALM_CREATE_FID /\ s.realm_count >= MAX_REALM_NUMS
  THEN SMC_RET1(s, SMC_UNK)
  ELSE LET s1 == rmi_track_realm(s, c)
           fid == IF c.sve_hint THEN c.fid + SVE_HINT_BIT ELSE c.fid
       IN IF s1.panicked THEN s1
          ELSE IF c.src = SMC_FROM_NON_SECURE
          THEN rmmd_smc_forward(s1, SMC_FROM_NON_SECURE, SMC_FROM_REALM,
                                <<fid, c.x1, c.x2, c.x3, c.x4>>,
                                <<c.x5, c.x6, c.x7>>, c.ub)
          ELSE IF c.src # SMC_FROM_REALM THEN SMC_RET1(s1, SMC_UNK)
          ELSE rmi_from_realm(s1, c)

\* faulty variant: the origin is classified as Realm or not Realm only, so
\* that a Secure call is taken for a Normal one
rmmd_rmi_handler_two_worlds(s, c) ==
  IF s.rmm_boot_failed THEN SMC_RET1(s, SMC_UNK)
  ELSE LET s1 == rmi_track_realm(s, c)
           fid == IF c.sve_hint THEN c.fid + SVE_HINT_BIT ELSE c.fid
       IN IF s1.panicked THEN s1
          ELSE IF c.src # SMC_FROM_REALM
          THEN rmmd_smc_forward(s1, SMC_FROM_NON_SECURE, SMC_FROM_REALM,
                                <<fid, c.x1, c.x2, c.x3, c.x4>>,
                                <<c.x5, c.x6, c.x7>>, c.ub)
          ELSE rmi_from_realm(s1, c)

\* c: the call as the runtime hands it over: fid, x1..x4, the caller's
\* x5..x7 (read through handle), the origin and SVE hint taken from flags
rmmd_rmi_handler(s, c) ==
  IF s.rmm_boot_failed THEN SMC_RET1(s, SMC_UNK)
  ELSE IF c.src = SMC_FROM_SECURE THEN SMC_RET1(s, SMC_UNK)
  ELSE LET s1 == rmi_track_realm(s, c)
           fid == IF c.sve_hint THEN c.fid + SVE_HINT_BIT ELSE c.fid
       IN IF s1.panicked THEN s1
          ELSE IF c.src = SMC_FROM_NON_SECURE
          THEN rmmd_smc_forward(s1, SMC_FROM_NON_SECURE, SMC_FROM_REALM,
                                <<fid, c.x1, c.x2, c.x3, c.x4>>,
                                <<c.x5, c.x6, c.x7>>, c.ub)
          ELSE IF c.src # SMC_FROM_REALM THEN SMC_RET1(s1, SMC_UNK)
          ELSE rmi_from_realm(s1, c)

\* faulty variant: the origin of the call is not looked at
rmmd_rmm_el3_handler_any_origin(s, c) ==
  IF s.rmm_boot_failed THEN SMC_RET1(s, SMC_UNK)
  ELSE IF c.fid \in {RMM_GTSI_DELEGATE, RMM_GTSI_UNDELEGATE,
                     RMM_ATTEST_GET_PLAT_TOKEN, RMM_ATTEST_GET_REALM_KEY,
                     RMM_EL3_FEATURES}
  THEN [s EXCEPT !.ret = [kind |-> "service", dst |-> "caller",
                          regs |-> <<c.fid>>]]
  ELSE IF c.fid = RMM_BOOT_COMPLETE
  THEN [s EXCEPT !.ret = [kind |-> "sync_exit", dst |-> "el3",
                          regs |-> <<c.x1>>]]
  ELSE SMC_RET1(s, SMC_UNK)

\* faulty variant: the boot-failure latch is not consulted
rmmd_rmm_el3_handler_no_latch(s, c) ==
  IF c.src # SMC_FROM_REALM THEN SMC_RET1(s, SMC_UNK)
  ELSE IF c.fid \in {RMM_GTSI_DELEGATE, RMM_GTSI_UNDELEGATE,
                     RMM_ATTEST_GET_PLAT_TOKEN, RMM_ATTEST_GET_REALM_KEY,
                     RMM_EL3_FEATURES}
  THEN [s EXCEPT !.ret = [kind |-> "service", dst |-> "caller",
                          regs |-> <<c.fid>>]]
  ELSE IF c.fid = RMM_BOOT_COMPLETE
  THEN [s EXCEPT !.ret = [kind |-> "sync_exit", dst |-> "el3",
                          regs |-> <<c.x1>>]]
  ELSE SMC_RET1(s, SMC_UNK)

\* lines 598-639: the RMM-EL3 interface router.  The services behind the
\* switch (GPT transitions, attestation, feature register) are collaborators;
\* a serviced call is reported as such with its function identifier.
rmmd_rmm_el3_handler(s, c) ==
  IF s.rmm_boot_failed THEN SMC_RET1(s, SMC_UNK)
  ELSE IF c.src # SMC_FROM_REALM THEN SMC_RET1(s, SMC_UNK)
  ELSE IF c.fid \in {RMM_GTSI_DELEGATE, RMM_GTSI_UNDELEGATE,
                     RMM_ATTEST_GET_PLAT_TOKEN, RMM_ATTEST_GET_REALM_KEY,
                     RMM_EL3_FEATURES}
  THEN [s EXCEPT !.ret = [kind |-> "service", dst |-> "caller",
                          regs |-> <<c.fid>>]]
  ELSE IF c.fid = RMM_BOOT_COMPLETE
  THEN [s EXCEPT !.ret = [kind |-> "sync_exit", dst |-> "el3",
                          regs |-> <<c.x1>>]]
  ELSE SMC_RET1(s, SMC_UNK)

(***************************************************************************)
(* rmmd_timer.c: the interrupt handler                                     *)
(***************************************************************************)
\* a call record
Call(fid, x1, r, src, hint, ub) ==
  [fid |-> fid, x1 |-> x1, x2 |-> r[1], x3 |-> r[2], x4 |-> r[3],
   x5 |-> r[4], x6 |-> r[5], x7 |-> r[6], src |-> src, sve_hint |-> hint,
   ub |-> ub]

\* faulty variant: the synthetic call is issued without looking at
\* realm_descriptor
timer_fire_no_descriptor_test(s, irq, fid, h, ub) ==
  LET a1 == assert(s, get_cntp_ctl_istatus(read_cntps_ctl_el1(s)))
      a2 == assert(a1, irq = EL3_TIMER_IRQ)
      w == Emit([a2 EXCEPT !.cntps_ctl = 0], Ev("disarm", 0, 0))
      q == Emit(w, Ev("synth", fid, w.realm_descriptor))
      s3 == rmmd_rmi_handler(q,
              Call(fid, q.realm_descriptor, <<0, 0, 0, h[1], h[2], h[3]>>,
                   SMC_FROM_NON_SECURE, FALSE, ub))
  IN IF a2.panicked THEN a2
     ELSE IF s3.panicked THEN s3
     ELSE Emit(s3, Ev("eoi", 0, 0))

\* faulty variant: the end of interrupt is signalled inside the branch that
\* issues the synthetic call
timer_fire_eoi_in_branch(s, irq, fid, h, ub) ==
  LET a1 == assert(s, get_cntp_ctl_istatus(read_cntps_ctl_el1(s)))
      a2 == assert(a1, irq = EL3_TIMER_IRQ)
      s3 == IF a2.realm_descriptor # 0
            THEN LET w == Emit([a2 EXCEPT !.cntps_ctl = 0],
                               Ev("disarm", 0, 0))
                     q == Emit(w, Ev("synth", fid, w.realm_descriptor))
                     r == rmmd_rmi_handler(q,
                            Call(fid, q.realm_descriptor,
                                 <<0, 0, 0, h[1], h[2], h[3]>>,
                                 SMC_FROM_NON_SECURE, FALSE, ub))
                 IN IF r.panicked THEN r ELSE Emit(r, Ev("eoi", 0, 0))
            ELSE [a2 EXCEPT !.ret = [kind |-> "rc", dst |-> "none",
                                     regs |-> <<0>>]]
  IN IF a2.panicked THEN a2 ELSE s3

\* the body both branches of the handler share (lines 38-66 and 74-100):
\* s already carries the branch's flag update; fid is the branch's call;
\* h is x5..x7 of the Normal-world context the synthetic call reads
timer_fire(s, irq, fid, h, ub) ==
  LET a1 == assert(s, get_cntp_ctl_istatus(read_cntps_ctl_el1(s)))
      a2 == assert(a1, irq = EL3_TIMER_IRQ)
      s3 == IF a2.realm_descriptor # 0
            THEN LET w == Emit([a2 EXCEPT !.cntps_ctl = 0],
                               Ev("disarm", 0, 0))
                     q == Emit(w, Ev("synth", fid, w.realm_descriptor))
                 IN rmmd_rmi_handler(q,
                      Call(fid, q.realm_descriptor,
                           <<0, 0, 0, h[1], h[2], h[3]>>,
                           SMC_FROM_NON_SECURE, FALSE, ub))
            ELSE [a2 EXCEPT !.ret = [kind |-> "rc", dst |-> "none",
                                     regs |-> <<0>>]]
  IN IF a2.panicked THEN a2
     ELSE IF s3.panicked THEN s3
     ELSE Emit(s3, Ev("eoi", 0, 0))

\* faulty variant: the awaiting-fetch branch leaves the flag set
rmmd_timer_handler_flag_kept(s, irq, h, ub) ==
  IF s.timer_realm_created
  THEN timer_fire([Emit(s, Ev("ack", 0, 0))
                     EXCEPT !.timer_triggered = TRUE],
                  irq, RMI_RPV_GET_FID, h, ub)
  ELSE timer_fire([Emit(s, Ev("ack", 0, 0))
                     EXCEPT !.timer_triggered = TRUE],
                  irq, RMI_DATA_DESTROY_ALL_FID, h, ub)

rmmd_timer_handler(s, irq, h, ub) ==
  IF s.timer_realm_created
  THEN timer_fire([Emit(s, Ev("ack", 0, 0))
                     EXCEPT !.timer_triggered = TRUE,
                            !.timer_realm_created = FALSE],
                  irq, RMI_RPV_GET_FID, h, ub)
  ELSE timer_fire([Emit(s, Ev("ack", 0, 0))
                     EXCEPT !.timer_triggered = TRUE],
                  irq, RMI_DATA_DESTROY_ALL_FID, h, ub)

(***************************************************************************)
(* rmmd_main.c: boot                                                       *)
(***************************************************************************)
\* rmm_boot_failed = true, observed as an event of the invocation
set_boot_failed(s) ==
  Emit([s EXCEPT !.rmm_boot_failed = TRUE], Ev("latch", 0, 0))

\* rmmd_setup: any of its three failures (no RME, no RMM image, manifest
\* load error) sets the boot-failure latch and returns an error
rmmd_setup(s, failed) ==
  IF failed THEN set_boot_failed(s) ELSE s

\* rmm_init: ok is rc == E_RMM_BOOT_SUCCESS of the first entry into the RMM
rmm_init(s, ok) ==
  IF ~ok THEN set_boot_failed(s) ELSE s

\* rmmd_cpu_on_finish_handler on a secondary core
rmmd_cpu_on_finish_handler(s, ok) ==
  IF s.rmm_boot_failed THEN s
  ELSE IF ~ok THEN set_boot_failed(s)
  ELSE s

(***************************************************************************)
(* Inputs.                                                                 *)
(***************************************************************************)
Vals == 0..MaxVal
\* x2..x7 of a call: distinct values, so that a register forwarded to the
\* wrong place shows
RestRegs == {<<12, 13, 14, 15, 16, 17>>}
\* x5..x7 of the Normal-world context the timer interrupted
HandleRegs == {<<15, 16, 17>>}
UbOutcomes == {"fault", "unnoticed"}
RmiFids == {RMI_REALM_CREATE_FID, RMI_REALM_ACTIVATE_FID,
            RMI_DATA_DESTROY_ALL_FID, RMI_RPV_GET_FID, RMI_REC_CREATE_FID,
            RMM_RMI_REQ_COMPLETE}
El3Fids == {RMM_GTSI_DELEGATE, RMM_EL3_FEATURES, RMM_BOOT_COMPLETE,
            RMI_REALM_CREATE_FID}
NoCall == Call(0, 0, <<0, 0, 0, 0, 0, 0>>, "none", FALSE, "unnoticed")

\* the calls the three worlds make on the RMI channel; the SVE hint is a
\* flag of Normal-world calls
RmiCalls ==
  {Call(fid, x1, r, src, hint, "unnoticed") :
     fid \in RmiFids, x1 \in Vals, r \in RestRegs,
     src \in Origins, hint \in BOOLEAN}

(***************************************************************************)
(* Scenarios.  scn follows the handler invocations since the last create   *)
(* of the Normal world along two sequences:                                *)
(*   section 8 of the spec: create(X), activate(X), request-complete, a    *)
(*     fire whose synthetic call is fetch-instance-value(X),               *)
(*     request-complete(v), activate(X) or activate of another realm;      *)
(*   destroy on timeout: create(X), request-complete, any number of        *)
(*     (create(Y), request-complete) for other realms Y # 0, activate(X),  *)
(*     the timer's interrupt.                                              *)
(*   - second create: realm Y # X is created before any completion        *)
(*     (v = Y), a create is completed, the handler is entered for the       *)
(*     timer's interrupt.                                                   *)
(* Any other invocation ends the sequence; time passing does not.          *)
(***************************************************************************)
NoScn == [stage |-> "none", X |-> 0, v |-> 0]

Forwarded(s) == s.ret.kind = "fwd"

IsRmi(o, fid, src) ==
  o.name = "rmi" /\ o.c.fid = fid /\ o.c.src = src

Synth(e, fid, rd) == \E i \in 1..Len(e) : e[i] = Ev("synth", fid, rd)

ScnNext(o, s) ==
  LET create == IsRmi(o, RMI_REALM_CREATE_FID, SMC_FROM_NON_SECURE)
                /\ Forwarded(s)
      activateX == IsRmi(o, RMI_REALM_ACTIVATE_FID, SMC_FROM_NON_SECURE)
                   /\ o.c.x1 = scn.X /\ Forwarded(s)
      activateOther == IsRmi(o, RMI_REALM_ACTIVATE_FID, SMC_FROM_NON_SECURE)
                       /\ o.c.x1 # scn.X /\ Forwarded(s)
      complete == IsRmi(o, RMM_RMI_REQ_COMPLETE, SMC_FROM_REALM)
                  /\ Forwarded(s)
      to(stage) == [scn EXCEPT !.stage = stage]
  IN CASE scn.stage = "created" /\ activateX -> to("s8_activated")
       [] scn.stage = "s8_activated" /\ complete -> to("s8_completed")
       [] scn.stage = "s8_completed" /\ o.name = "timer"
          /\ Synth(s.ev, RMI_RPV_GET_FID, scn.X) /\ Forwarded(s)
            -> to("s8_fetching")
       [] scn.stage = "s8_fetching" /\ complete
            -> [scn EXCEPT !.stage = "s8_stored", !.v = o.c.x1]
       [] scn.stage = "s8_stored" /\ activateX -> to("s8_reactivated")
       [] scn.stage = "s8_stored" /\ activateOther
            -> to("s8_other_activated")
       [] scn.stage = "created" /\ complete -> to("d_completed")
       [] scn.stage = "d_completed" /\ create
          /\ o.c.x1 # scn.X /\ o.c.x1 # 0 -> to("d_other")
       [] scn.stage = "d_other" /\ complete -> to("d_completed")
       [] scn.stage = "d_completed" /\ activateX -> to("d_activated")
       [] scn.stage = "d_activated" /\ o.name = "timer"
          /\ o.irq = EL3_TIMER_IRQ -> to("d_fired")
       [] scn.stage = "created" /\ create /\ o.c.x1 # scn.X
            -> [scn EXCEPT !.stage = "c2_second", !.v = o.c.x1]
       [] scn.stage = "c2_second" /\ complete -> to("c2_completed")
       [] scn.stage = "c2_completed" /\ o.name = "timer"
          /\ o.irq = EL3_TIMER_IRQ -> to("c2_fired")
       [] OTHER -> IF create
                   THEN [stage |-> "created", X |-> o.c.x1, v |-> 0]
                   ELSE NoScn

(***************************************************************************)
(* Actions.  A handler is entered from a lower exception level (Idle) and  *)
(* runs to its end in one step, which leaves the record of the invocation  *)
(* (op, pre, ev, ret); Eret is the exception return that hands the result  *)
(* to the world it is for.                                                 *)
(***************************************************************************)
Op(name, c, irq) == [name |-> name, c |-> c, irq |-> irq]
NoOp == Op("none", NoCall, "none")

Idle == op = NoOp

Running == pc = "run" /\ ~panicked /\ Idle

\* the state a handler leaves, with the record of the invocation
Commit(s, o) ==
  /\ rmm_boot_failed' = s.rmm_boot_failed
  /\ realm_values' = s.realm_values
  /\ realm_count' = s.realm_count
  /\ realm_created' = s.realm_created
  /\ realm_created_id' = s.realm_created_id
  /\ realm_getting_rpv' = s.realm_getting_rpv
  /\ realm_getting_rpv_id' = s.realm_getting_rpv_id
  /\ timer_triggered' = s.timer_triggered
  /\ realm_descriptor' = s.realm_descriptor
  /\ timer_realm_created' = s.timer_realm_created
  /\ timer_expiration' = s.timer_expiration
  /\ cntps_cval' = s.cntps_cval
  /\ cntps_ctl' = s.cntps_ctl
  /\ panicked' = s.panicked
  /\ ev' = s.ev
  /\ ret' = s.ret
  /\ op' = o
  /\ pre' = Cur
  /\ scn' = ScnNext(o, s)

Setup ==
  /\ pc = "setup" /\ Idle
  /\ \E failed \in BOOLEAN :
       /\ Commit(rmmd_setup(Cur, failed), Op("setup", NoCall, "none"))
       /\ pc' = IF failed THEN "run" ELSE "init"
  /\ UNCHANGED <<cntpct, enable_assertions, max_realms>>

RmmInit ==
  /\ pc = "init" /\ Idle
  /\ \E ok \in BOOLEAN :
       Commit(rmm_init(Cur, ok), Op("init", NoCall, "none"))
  /\ pc' = "run"
  /\ UNCHANGED <<cntpct, enable_assertions, max_realms>>

CpuOn ==
  /\ Running
  /\ \E ok \in BOOLEAN :
       Commit(rmmd_cpu_on_finish_handler(Cur, ok),
              Op("cpu_on", NoCall, "none"))
  /\ UNCHANGED <<cntpct, enable_assertions, pc, max_realms>>

\* routeCall: an SMC in the RMI range reaches rmmd_rmi_handler.  The worlds
\* ask for a new realm only while fewer than max_realms are registered.
RmiCall ==
  /\ Running
  /\ \E c \in RmiCalls, ub \in UbOutcomes :
       /\ c.src # SMC_FROM_NON_SECURE => ~c.sve_hint
       /\ c.fid = RMI_REALM_CREATE_FID => realm_count < max_realms
       /\ Commit(rmmd_rmi_handler(Cur, [c EXCEPT !.ub = ub]),
                 Op("rmi", c, "none"))
  /\ UNCHANGED <<cntpct, enable_assertions, pc, max_realms>>

\* routeElevatedCall: an SMC in the RMM-EL3 range
El3Call ==
  /\ Running
  /\ \E fid \in El3Fids, x1 \in Vals, src \in Origins :
       LET c == Call(fid, x1, <<0, 0, 0, 0, 0, 0>>, src, FALSE, "unnoticed")
       IN Commit(rmmd_rmm_el3_handler(Cur, c), Op("el3", c, "none"))
  /\ UNCHANGED <<cntpct, enable_assertions, pc, max_realms>>

\* the interrupt layer enters the handler: for the timer line when the
\* timer asserts it, for another secure interrupt at any time
TimerHandler ==
  /\ Running
  /\ \E irq \in {EL3_TIMER_IRQ, OTHER_IRQ}, h \in HandleRegs,
        ub \in UbOutcomes :
       /\ irq = EL3_TIMER_IRQ => TimerIrqAsserted(Cur)
       /\ Commit(rmmd_timer_handler(Cur, irq, h, ub),
                 Op("timer", NoCall, irq))
  /\ UNCHANGED <<cntpct, enable_assertions, pc, max_realms>>

\* exception return: the result is handed over, the invocation is over
Eret ==
  /\ ~Idle /\ ~panicked
  /\ op' = NoOp /\ pre' = NoPre /\ ev' = <<>> /\ ret' = NoRet
  /\ UNCHANGED <<rmm_boot_failed, realm_values, realm_count, realm_created,
                 realm_created_id, realm_getting_rpv, realm_getting_rpv_id,
                 timer_triggered, realm_descriptor, timer_realm_created,
                 timer_expiration, cntps_cval, cntps_ctl, cntpct,
                 enable_assertions, pc, panicked, scn, max_realms>>

\* the system counter advances
Tick ==
  /\ ~panicked /\ Idle
  /\ cntpct < BootCounter + MaxTicks
  /\ cntpct' = cntpct + 1
  /\ UNCHANGED <<rmm_boot_failed, realm_values, realm_count, realm_created,
                 realm_created_id, realm_getting_rpv, realm_getting_rpv_id,
                 timer_triggered, realm_descriptor, timer_realm_created,
                 timer_expiration, cntps_cval, cntps_ctl,
                 enable_assertions, pc, panicked, op, pre, ev, ret, scn,
                 max_realms>>

\* the statics as the C runtime initialises them
InitStatics ==
  [rmm_boot_failed |-> FALSE,
   realm_values |-> [i \in 0..(MAX_REALM_NUMS - 1) |->
                       [rd |-> 0, timer_expiration |-> 0]],
   realm_count |-> 0, realm_created |-> FALSE, realm_created_id |-> 0,
   realm_getting_rpv |-> FALSE, realm_getting_rpv_id |-> 0,
   timer_triggered |-> FALSE, realm_descriptor |-> 0,
   timer_realm_created |-> FALSE, timer_expiration |-> 0,
   cntps_cval |-> 0, cntps_ctl |-> 0,
   panicked |-> FALSE, ev |-> <<>>, ret |-> NoRet]

Start(s) ==
  /\ rmm_boot_failed = s.rmm_boot_failed
  /\ realm_values = s.realm_values
  /\ realm_count = s.realm_count
  /\ realm_created = s.realm_created
  /\ realm_created_id = s.realm_created_id
  /\ realm_getting_rpv = s.realm_getting_rpv
  /\ realm_getting_rpv_id = s.realm_getting_rpv_id
  /\ timer_triggered = s.timer_triggered
  /\ realm_descriptor = s.realm_descriptor
  /\ timer_realm_created = s.timer_realm_created
  /\ timer_expiration = s.timer_expiration
  /\ cntps_cval = s.cntps_cval
  /\ cntps_ctl = s.cntps_ctl
  /\ cntpct = BootCounter
  /\ enable_assertions \in BOOLEAN
  /\ panicked = FALSE
  /\ op = NoOp
  /\ pre = NoPre
  /\ ev = <<>>
  /\ ret = NoRet
  /\ scn = NoScn

\* the dispatcher before rmmd_setup; the Normal world manages up to
\* MaxRealms realms
Init ==
  /\ Start(InitStatics)
  /\ pc = "setup"
  /\ max_realms = MaxRealms

\* a dispatcher that has booted and has taken three creates from the Normal
\* world, which goes on creating realms without limit
Preloaded ==
  LET create(s, rd) ==
        rmmd_rmi_handler(s, Call(RMI_REALM_CREATE_FID, rd,
                                 <<12, 13, 14, 15, 16, 17>>,
                                 SMC_FROM_NON_SECURE, FALSE, "unnoticed"))
      s3 == create(create(create(InitStatics, 1), MaxVal), 0)
  IN [s3 EXCEPT !.ev = <<>>, !.ret = NoRet]

InitCapacity ==
  /\ Start(Preloaded)
  /\ pc = "run"
  /\ max_realms = MAX_REALM_NUMS + 1

Next ==
  \/ Setup
  \/ RmmInit
  \/ CpuOn
  \/ RmiCall
  \/ El3Call
  \/ TimerHandler
  \/ Eret
  \/ Tick

Spec == Init /\ [][Next]_vars

NextCapacity ==
  \/ CpuOn
  \/ RmiCall
  \/ El3Call
  \/ TimerHandler
  \/ Eret
  \/ Tick

SpecCapacity == InitCapacity /\ [][NextCapacity]_vars

(***************************************************************************)
(* Preemption.  The router runs statement by statement where it updates    *)
(* the awaiting-fetch flag and arms the timer (rmmd_timer_init called from  *)
(* rmmd_rmi_handler), and rmmd_timer_handler may run between two of these   *)
(* statements as well as between two calls.  pc is the router's position:   *)
(*   "setup_arm"    activate: realm_created = false done (rmmd_timer.c     *)
(*                  162), setting_timer not yet called;                     *)
(*   "create_flag"  completion of a create: realm_descriptor = rd done      *)
(*                  (150), realm_created = true not yet;                    *)
(*   "create_arm"   realm_created = true done (151), setting_timer not yet. *)
(* scn records what armed the timer last ("p_fetch_armed" by the creation   *)
(* mode, "p_setup_armed" by activate), and, once the handler has run for    *)
(* that arm ("p_fetch_fired", "p_setup_fired"), in X the function           *)
(* identifier of the synthetic call it issued (0: none).                    *)
(***************************************************************************)
\* the number of events called name among e
Count(e, name) == Cardinality({i \in 1..Len(e) : e[i].e = name})

\* the state in the middle of an invocation: the events so far are kept
CurMid == [Cur EXCEPT !.ev = ev]

\* the variables of the program take their values from s
Store(s) ==
  /\ rmm_boot_failed' = s.rmm_boot_failed
  /\ realm_values' = s.realm_values
  /\ realm_count' = s.realm_count
  /\ realm_created' = s.realm_created
  /\ realm_created_id' = s.realm_created_id
  /\ realm_getting_rpv' = s.realm_getting_rpv
  /\ realm_getting_rpv_id' = s.realm_getting_rpv_id
  /\ timer_triggered' = s.timer_triggered
  /\ realm_descriptor' = s.realm_descriptor
  /\ timer_realm_created' = s.timer_realm_created
  /\ timer_expiration' = s.timer_expiration
  /\ cntps_cval' = s.cntps_cval
  /\ cntps_ctl' = s.cntps_ctl
  /\ panicked' = s.panicked
  /\ ev' = s.ev
  /\ ret' = s.ret

PArmed(stage) == [stage |-> stage, X |-> 0, v |-> 0]

\* a call of the Normal or Realm world that the router handles without
\* touching the timer: create, or a request-complete with no create pending
StepOther ==
  /\ pc = "run" /\ Idle /\ ~panicked
  /\ \E fid \in {RMI_REALM_CREATE_FID, RMM_RMI_REQ_COMPLETE}, x1 \in Vals,
        r \in RestRegs :
       LET c == Call(fid, x1, r,
                     IF fid = RMM_RMI_REQ_COMPLETE THEN SMC_FROM_REALM
                     ELSE SMC_FROM_NON_SECURE, FALSE, "unnoticed")
       IN /\ fid = RMI_REALM_CREATE_FID => realm_count < max_realms
          /\ fid = RMM_RMI_REQ_COMPLETE => ~realm_created
          /\ Store(rmmd_rmi_handler(Cur, c))
          /\ op' = Op("rmi", c, "none")
          /\ pre' = Cur
  /\ UNCHANGED <<cntpct, enable_assertions, pc, max_realms, scn>>

\* rmmd_main.c 409-446, rmmd_timer.c 162: activate from the Normal world up
\* to realm_created = false
ActivateClearFlag ==
  /\ pc = "run" /\ Idle /\ ~panicked /\ ~rmm_boot_failed
  /\ \E x1 \in Vals, r \in RestRegs :
       /\ op' = Op("rmi", Call(RMI_REALM_ACTIVATE_FID, x1, r,
                               SMC_FROM_NON_SECURE, FALSE, "unnoticed"),
                   "none")
       /\ pre' = Cur
       /\ Store([Cur EXCEPT !.timer_realm_created = FALSE])
  /\ pc' = "setup_arm"
  /\ UNCHANGED <<cntpct, enable_assertions, max_realms, scn>>

\* rmmd_timer.c 163, rmmd_main.c 450-463: setting_timer(timer_expiration)
\* and the forward to the Realm world
ActivateArm ==
  /\ pc = "setup_arm" /\ ~panicked
  /\ LET c == op.c
         s1 == setting_timer(CurMid, timer_expiration)
         s2 == IF s1.panicked THEN s1
               ELSE rmmd_smc_forward(s1, SMC_FROM_NON_SECURE, SMC_FROM_REALM,
                                     <<c.fid, c.x1, c.x2, c.x3, c.x4>>,
                                     <<c.x5, c.x6, c.x7>>, c.ub)
     IN Store(s2)
  /\ pc' = "run"
  /\ scn' = PArmed("p_setup_armed")
  /\ UNCHANGED <<cntpct, enable_assertions, max_realms, op, pre>>

\* rmmd_main.c 409-475, rmmd_timer.c 150: request-complete with a create
\* pending, up to realm_descriptor = rd
CompleteSetDescriptor ==
  /\ pc = "run" /\ Idle /\ ~panicked /\ ~rmm_boot_failed
  /\ realm_created
  /\ \E x1 \in Vals, r \in RestRegs :
       /\ op' = Op("rmi", Call(RMM_RMI_REQ_COMPLETE, x1, r, SMC_FROM_REALM,
                               FALSE, "unnoticed"), "none")
       /\ pre' = Cur
       /\ LET u1 == Emit([Cur EXCEPT !.realm_created = FALSE],
                         Ev("created", 0, 0))
              u2 == Emit([u1 EXCEPT !.realm_getting_rpv_id =
                                        u1.realm_created_id],
                         Ev("getting_rpv_id", u1.realm_created_id, 0))
          IN Store([u2 EXCEPT !.realm_descriptor = u2.realm_created_id])
  /\ pc' = "create_flag"
  /\ UNCHANGED <<cntpct, enable_assertions, max_realms, scn>>

\* rmmd_timer.c 151: realm_created = true
CompleteSetFlag ==
  /\ pc = "create_flag" /\ ~panicked
  /\ Store([CurMid EXCEPT !.timer_realm_created = TRUE])
  /\ pc' = "create_arm"
  /\ UNCHANGED <<cntpct, enable_assertions, max_realms, op, pre, scn>>

\* rmmd_timer.c 153, rmmd_main.c 479-490: setting_timer for the fetch
\* delay, realm_created_id = 0 and the forward to the Normal world
CompleteArm ==
  /\ pc = "create_arm" /\ ~panicked
  /\ LET c == op.c
         s1 == setting_timer(CurMid, REALM_RPV_GET_TIMER_SECONDS)
         s2 == IF s1.panicked THEN s1
               ELSE Emit([s1 EXCEPT !.realm_created_id = 0],
                         Ev("created_id", 0, 0))
         s3 == IF s2.panicked THEN s2
               ELSE rmmd_smc_forward(s2, SMC_FROM_REALM, SMC_FROM_NON_SECURE,
                                     <<c.x1, c.x2, c.x3, c.x4, c.x5>>,
                                     <<c.x5, c.x6, c.x7>>, c.ub)
     IN Store(s3)
  /\ pc' = "run"
  /\ scn' = PArmed("p_fetch_armed")
  /\ UNCHANGED <<cntpct, enable_assertions, max_realms, op, pre>>

\* the function identifier of the synthetic call among the events e, or 0
SynthFid(e) ==
  IF \E i \in 1..Len(e) : e[i].e = "synth"
  THEN e[CHOOSE i \in 1..Len(e) : e[i].e = "synth"].a
  ELSE 0

\* the state the handler leaves, its events after those of the router; the
\* arm it ran for is marked served, with the synthetic call issued
StoreFired(s) ==
  /\ Store([s EXCEPT !.ev = ev \o s.ev])
  /\ scn' = [stage |-> CASE scn.stage = "p_fetch_armed" -> "p_fetch_fired"
                          [] scn.stage = "p_setup_armed" -> "p_setup_fired"
                          [] OTHER -> scn.stage,
              X |-> SynthFid(s.ev), v |-> 0]

\* the handler runs for the timer's interrupt, between two calls or between
\* two statements of the router
PreemptHandler ==
  /\ ~panicked /\ TimerIrqAsserted(Cur)
  /\ pc = "run" => Idle
  /\ pc # "run" => Count(ev, "ack") < MaxPreempts
  /\ \E h \in HandleRegs, ub \in UbOutcomes :
       StoreFired(rmmd_timer_handler(Cur, EL3_TIMER_IRQ, h, ub))
  /\ op' = IF pc = "run" THEN Op("timer", NoCall, EL3_TIMER_IRQ) ELSE op
  /\ pre' = IF pc = "run" THEN Cur ELSE pre
  /\ UNCHANGED <<cntpct, enable_assertions, pc, max_realms>>

\* exception return at the end of an invocation
PreemptEret ==
  /\ pc = "run"
  /\ Eret

\* the system counter advances, wherever the router is
PreemptTick ==
  /\ ~panicked
  /\ pc = "run" => Idle
  /\ cntpct < BootCounter + MaxTicks
  /\ cntpct' = cntpct + 1
  /\ UNCHANGED <<rmm_boot_failed, realm_values, realm_count, realm_created,
                 realm_created_id, realm_getting_rpv, realm_getting_rpv_id,
                 timer_triggered, realm_descriptor, timer_realm_created,
                 timer_expiration, cntps_cval, cntps_ctl,
                 enable_assertions, pc, panicked, op, pre, ev, ret, scn,
                 max_realms>>

\* a dispatcher that has booted
InitPreempt ==
  /\ Start(InitStatics)
  /\ pc = "run"
  /\ max_realms = MaxRealms

NextPreempt ==
  \/ StepOther
  \/ ActivateClearFlag
  \/ ActivateArm
  \/ CompleteSetDescriptor
  \/ CompleteSetFlag
  \/ CompleteArm
  \/ PreemptHandler
  \/ PreemptEret
  \/ PreemptTick

SpecPreempt == InitPreempt /\ [][NextPreempt]_vars

(***************************************************************************)
(* Durations.  The Realm world completes fetches with durations up to the   *)
(* largest machine word, the Normal world activates realms: the comparator  *)
(* is computed from durations for which time_to_set * freq or the sum with  *)
(* the counter passes the word size.                                        *)
(***************************************************************************)
\* durations around the point where time_to_set * CntFrq wraps
Durations ==
  {0, 1, REALM_RPV_GET_TIMER_SECONDS,
   (WordMod \div CntFrq) - 1, WordMod \div CntFrq, (WordMod \div CntFrq) + 1,
   WordMod - 1}

\* a dispatcher that has booted and has forwarded a fetch-instance-value
\* call, whose completion is awaited
Fetching ==
  LET s == rmmd_rmi_handler(InitStatics,
             Call(RMI_RPV_GET_FID, 1, <<12, 13, 14, 15, 16, 17>>,
                  SMC_FROM_NON_SECURE, FALSE, "unnoticed"))
  IN [s EXCEPT !.ev = <<>>, !.ret = NoRet]

InitDurations ==
  /\ Start(Fetching)
  /\ pc = "run"
  /\ max_realms = MaxRealms

\* request-complete from the Realm world, with any duration as x1
DurationComplete ==
  /\ Running
  /\ \E x1 \in Durations, r \in RestRegs :
       LET c == Call(RMM_RMI_REQ_COMPLETE, x1, r, SMC_FROM_REALM, FALSE,
                     "unnoticed")
       IN Commit(rmmd_rmi_handler(Cur, c), Op("rmi", c, "none"))
  /\ UNCHANGED <<cntpct, enable_assertions, pc, max_realms>>

\* fetch-instance-value or activate from the Normal world
DurationCall ==
  /\ Running
  /\ \E fid \in {RMI_RPV_GET_FID, RMI_REALM_ACTIVATE_FID}, x1 \in Vals,
        r \in RestRegs :
       LET c == Call(fid, x1, r, SMC_FROM_NON_SECURE, FALSE, "unnoticed")
       IN Commit(rmmd_rmi_handler(Cur, c), Op("rmi", c, "none"))
  /\ UNCHANGED <<cntpct, enable_assertions, pc, max_realms>>

NextDurations ==
  \/ DurationComplete
  \/ DurationCall
  \/ Eret
  \/ Tick

SpecDurations == InitDurations /\ [][NextDurations]_vars

(***************************************************************************)
(* Properties.  They are stated on the record an invocation leaves: op the  *)
(* handler and its call, pre the state it started from, ev what it did, in  *)
(* program order, ret what it handed back.                                 *)
(***************************************************************************)
\* SMC_RET1(handle, SMC_UNK)
UnkRet == [kind |-> "ret", dst |-> "caller", regs |-> <<SMC_UNK>>]

\* the return of rmmd_timer_handler that issued no call: rc = 0
ZeroRet == [kind |-> "rc", dst |-> "none", regs |-> <<0>>]

\* the invocation armed the timer for d seconds
Armed(e, d) == \E i \in 1..Len(e) : e[i].e = "arm" /\ e[i].a = d

\* the timer is enabled with the comparator d seconds from now
TimerSetFor(d) ==
  /\ HasBit(cntps_ctl, CNTP_CTL_ENABLE_BIT)
  /\ cntps_cval = timer_expire(cntpct, d, CntFrq)

\* the invocation just made brought the scenario to this stage
At(stage) == ~Idle /\ scn.stage = stage

\* what a fetch completion with value v stores
Stored(v) == IF v = 0 THEN REALM_DESTROY_TIMER_SECONDS ELSE v

\* C1: a call on the RMI channel that originates in the Secure world is
\* never forwarded to another world; it returns SMC_UNK to its caller.
C1_SecureCallNotForwarded ==
  (op.name = "rmi" /\ op.c.src = SMC_FROM_SECURE)
    => (ret = UnkRet /\ ret.kind # "fwd")

\* a Secure create reached the origin test (the dispatcher booted) and was
\* answered SMC_UNK
C1_Witness ==
  /\ op.name = "rmi" /\ op.c.src = SMC_FROM_SECURE
  /\ op.c.fid = RMI_REALM_CREATE_FID
  /\ ~pre.rmm_boot_failed
  /\ ret = UnkRet

\* C2: the boot-failure latch, once set, is not set again and is never
\* cleared, and from then on every call to rmmd_rmi_handler (the timer
\* handler's synthetic call included) and to rmmd_rmm_el3_handler returns
\* SMC_UNK and is forwarded or serviced nowhere.
C2_BootFailureLatch ==
  (~Idle /\ pre.rmm_boot_failed) =>
    /\ rmm_boot_failed
    /\ Count(ev, "latch") = 0
    /\ op.name \in {"rmi", "el3"} => (ret = UnkRet /\ ev = <<>>)
    /\ (op.name = "timer" /\ Count(ev, "synth") = 1) => ret = UnkRet

\* a create of the Normal world, which a booted dispatcher forwards, arrives
\* with the latch set
C2_Witness ==
  /\ op.name = "rmi" /\ op.c.src = SMC_FROM_NON_SECURE
  /\ op.c.fid = RMI_REALM_CREATE_FID
  /\ pre.rmm_boot_failed
  /\ ret = UnkRet

\* C3: realm_count never exceeds MAX_REALM_NUMS, and a create that arrives
\* when the registry is full leaves realm_count and every record (the first
\* record's rd among them) as they were.
C3_RegistryBounded ==
  /\ realm_count <= MAX_REALM_NUMS
  /\ (op.name = "rmi" /\ op.c.fid = RMI_REALM_CREATE_FID
      /\ pre.realm_count = MAX_REALM_NUMS)
       => /\ realm_count = pre.realm_count
          /\ realm_values = pre.realm_values
          /\ realm_values[0].rd = pre.realm_values[0].rd

\* a create of the Normal world for an rd other than the first record's is
\* forwarded with the registry full
C3_Witness ==
  /\ op.name = "rmi" /\ op.c.src = SMC_FROM_NON_SECURE
  /\ op.c.fid = RMI_REALM_CREATE_FID
  /\ pre.realm_count = MAX_REALM_NUMS
  /\ op.c.x1 # pre.realm_values[0].rd
  /\ ret.kind = "fwd"
  /\ Count(ev, "too_many_realms") = 1

\* C4, as stated: after create(X), activate(X), request-complete, a fire
\* that fetches for X and request-complete(v), the value v is the stored
\* duration, and the next activate(X) arms the timer for v seconds, for
\* every v.
C4_AsStated ==
  /\ At("s8_stored") => timer_expiration = scn.v
  /\ At("s8_reactivated")
       => (Armed(ev, scn.v) /\ TimerSetFor(scn.v))

\* C4, amended: the same for every v other than 0; a fetch completion with
\* v = 0 stores REALM_DESTROY_TIMER_SECONDS and the next activate(X) arms
\* for that.
C4_FetchedDurationArmed ==
  /\ At("s8_stored") => timer_expiration = Stored(scn.v)
  /\ At("s8_reactivated")
       => /\ Count(ev, "arm") = 1
          /\ Armed(ev, Stored(scn.v))
          /\ TimerSetFor(Stored(scn.v))

\* the sequence ran to its last activate with a fetched value that is
\* neither 0 nor the fallback
C4_Witness ==
  /\ At("s8_reactivated")
  /\ scn.v > REALM_DESTROY_TIMER_SECONDS
  /\ Armed(ev, scn.v)

\* C5, as stated: at the end of create(X), activate(X), request-complete,
\* fire with fetch for X, request-complete(v), the timer is armed and its
\* duration is v.
C5_AsStated ==
  At("s8_stored")
    => (HasBit(cntps_ctl, CNTP_CTL_ENABLE_BIT) /\ Armed(ev, scn.v))

\* C5, amended: at the end of that sequence v (the fallback for v = 0) is
\* stored as the duration the next activate will arm; the fetch completion
\* itself arms nothing, and the timer, which the handler disabled before its
\* synthetic call, is still disabled.
C5_FetchCompletionStoresOnly ==
  At("s8_stored")
    => /\ timer_expiration = Stored(scn.v)
       /\ Count(ev, "arm") = 0
       /\ ~HasBit(cntps_ctl, CNTP_CTL_ENABLE_BIT)
       /\ cntps_ctl = pre.cntps_ctl /\ cntps_cval = pre.cntps_cval

\* the fetch completion of the sequence delivered the largest value
C5_Witness ==
  /\ At("s8_stored")
  /\ scn.v = MaxVal
  /\ op.name = "rmi" /\ op.c.fid = RMM_RMI_REQ_COMPLETE
  /\ pre.realm_getting_rpv

\* C6: while no fetch completion has stored a duration (timer_expiration is
\* as initialised), an activate of the Normal world arms the timer for
\* REALM_DESTROY_TIMER_SECONDS, and the synthetic call of the fire that
\* follows an activate is destroy-all-data, not fetch.
C6_FallbackWhenNothingFetched ==
  /\ (op.name = "rmi" /\ op.c.fid = RMI_REALM_ACTIVATE_FID
      /\ op.c.src = SMC_FROM_NON_SECURE /\ ~pre.rmm_boot_failed
      /\ pre.timer_expiration = 0 /\ ~panicked)
       => (Armed(ev, REALM_DESTROY_TIMER_SECONDS)
           /\ TimerSetFor(REALM_DESTROY_TIMER_SECONDS))
  /\ (op.name = "timer" /\ ~pre.timer_realm_created
      /\ Count(ev, "synth") = 1)
       => Synth(ev, RMI_DATA_DESTROY_ALL_FID, pre.realm_descriptor)

\* C7, on finite runs: when realm X # 0 has been created and its create
\* completed, any number of other realms were created and completed, X was
\* activated and the timer's interrupt is then taken (no fetch completed in
\* between), the handler issues destroy-all-data for X.
C7_DestroyCarriesActivatedRealm ==
  (At("d_fired") /\ scn.X # 0 /\ ~panicked)
    => Synth(ev, RMI_DATA_DESTROY_ALL_FID, scn.X)

\* C8: a fire with the awaiting-fetch flag clear and no realm descriptor on
\* record acknowledges the interrupt, signals its end, issues no synthetic
\* call and returns 0.
C8_QuiescentFire ==
  (op.name = "timer" /\ ~pre.timer_realm_created /\ pre.realm_descriptor = 0)
    => /\ op.irq = EL3_TIMER_IRQ => ~panicked
       /\ ~panicked => /\ ev = <<Ev("ack", 0, 0), Ev("eoi", 0, 0)>>
                       /\ ret = ZeroRet

\* the timer's own interrupt is taken with nothing on record
C8_Witness ==
  /\ op.name = "timer" /\ op.irq = EL3_TIMER_IRQ
  /\ ~pre.timer_realm_created /\ pre.realm_descriptor = 0
  /\ ret = ZeroRet

\* C9: every invocation of the timer handler acknowledges the interrupt
\* once, first of all, and every invocation that runs to its end (in either
\* branch, with or without a realm descriptor on record) signals the end of
\* interrupt once, last of all.
C9_AckAndEoiOnce ==
  op.name = "timer"
    => /\ Count(ev, "ack") = 1 /\ ev[1] = Ev("ack", 0, 0)
       /\ Count(ev, "eoi") <= 1
       /\ ~panicked => /\ Count(ev, "eoi") = 1
                       /\ ev[Len(ev)] = Ev("eoi", 0, 0)

\* the awaiting-fetch branch issued its synthetic call and ended the
\* interrupt after it
C9_Witness ==
  /\ op.name = "timer" /\ pre.timer_realm_created
  /\ Synth(ev, RMI_RPV_GET_FID, pre.realm_descriptor)
  /\ ev[Len(ev)] = Ev("eoi", 0, 0)

\* C10, as stated: a create of the Normal world that arrives with the
\* registry full stores no record but sets the lifecycle flags: realm_created
\* becomes true and realm_created_id the call's x1.
C10_AsStated ==
  (op.name = "rmi" /\ op.c.fid = RMI_REALM_CREATE_FID
   /\ op.c.src = SMC_FROM_NON_SECURE /\ ~pre.rmm_boot_failed
   /\ pre.realm_count = MAX_REALM_NUMS)
    => /\ realm_count = pre.realm_count
       /\ realm_created /\ realm_created_id = op.c.x1

\* C10, amended: such a create stores no record and leaves the lifecycle
\* flags realm_created and realm_created_id as they were; the call is
\* forwarded to the Realm world all the same.
C10_FullCreateLeavesLifecycle ==
  (op.name = "rmi" /\ op.c.fid = RMI_REALM_CREATE_FID
   /\ op.c.src = SMC_FROM_NON_SECURE /\ ~pre.rmm_boot_failed
   /\ pre.realm_count = MAX_REALM_NUMS)
    => /\ realm_count = pre.realm_count
       /\ realm_created = pre.realm_created
       /\ realm_created_id = pre.realm_created_id
       /\ ret.kind = "fwd" /\ ret.dst = SMC_FROM_REALM

\* a create arrives with the registry full and no create pending
C10_Witness ==
  /\ op.name = "rmi" /\ op.c.fid = RMI_REALM_CREATE_FID
  /\ op.c.src = SMC_FROM_NON_SECURE /\ ~pre.rmm_boot_failed
  /\ pre.realm_count = MAX_REALM_NUMS
  /\ ~pre.realm_created /\ ~realm_created
  /\ op.c.x1 # 0

\* the function identifier as the router passes it on: with the SVE hint
\* bit when the caller's flags carry the hint
PassedFid(c) == IF c.sve_hint THEN c.fid + SVE_HINT_BIT ELSE c.fid

\* the call went to the Realm world with x0..x7 of the Normal-world caller
ForwardedToRealm(c) ==
  ret = [kind |-> "fwd", dst |-> SMC_FROM_REALM,
         regs |-> <<PassedFid(c), c.x1, c.x2, c.x3, c.x4, c.x5, c.x6, c.x7>>]

\* C11: a create of the Normal world that finds the registry full is still
\* forwarded to the Realm world with its arguments; the router produces no
\* error result for the overflow and does not halt.
C11_FullCreateForwarded ==
  (op.name = "rmi" /\ op.c.fid = RMI_REALM_CREATE_FID
   /\ op.c.src = SMC_FROM_NON_SECURE /\ ~pre.rmm_boot_failed
   /\ pre.realm_count >= MAX_REALM_NUMS)
    => (ForwardedToRealm(op.c) /\ ~panicked /\ ret # UnkRet)

\* a create carrying the SVE hint is forwarded with the registry full
C11_Witness ==
  /\ op.name = "rmi" /\ op.c.fid = RMI_REALM_CREATE_FID
  /\ op.c.src = SMC_FROM_NON_SECURE /\ op.c.sve_hint
  /\ pre.realm_count = MAX_REALM_NUMS
  /\ ForwardedToRealm(op.c)
  /\ Count(ev, "too_many_realms") = 1

\* C12: realm_getting_rpv is set only by the timer handler's synthetic
\* fetch-instance-value call, never by a fetch-instance-value call that a
\* world sends itself.
C12_MarkerSetByTimerOnly ==
  (~Idle /\ ~pre.realm_getting_rpv /\ realm_getting_rpv)
    => (op.name = "timer"
        /\ Synth(ev, RMI_RPV_GET_FID, pre.realm_descriptor))

\* C13, as stated: a call on the RMM-EL3 channel whose origin is not the
\* Realm world halts the core; no result is returned to the caller.
C13_AsStated ==
  (op.name = "el3" /\ op.c.src # SMC_FROM_REALM /\ ~pre.rmm_boot_failed)
    => (panicked /\ ret = NoRet)

\* C13, amended: such a call is answered SMC_UNK; the core does not halt,
\* nothing is serviced and nothing of the dispatcher's state changes.
C13_ForeignElevatedCallRejected ==
  (op.name = "el3" /\ op.c.src # SMC_FROM_REALM)
    => (ret = UnkRet /\ ~panicked /\ ev = <<>> /\ Cur = pre)

\* a granule delegation of the Normal world reaches the origin test
C13_Witness ==
  /\ op.name = "el3" /\ op.c.src = SMC_FROM_NON_SECURE
  /\ op.c.fid = RMM_GTSI_DELEGATE
  /\ ~pre.rmm_boot_failed
  /\ ret = UnkRet /\ ~panicked

\* C14: the rd of the records in the live range [0, realm_count) are
\* pairwise distinct.
C14_LiveIdentifiersDistinct ==
  \A i, j \in 0..(realm_count - 1) :
    i # j => realm_values[i].rd # realm_values[j].rd

\* a request-complete trapped from the Realm world reached the router's
\* switch
IsComplete ==
  /\ op.name = "rmi" /\ op.c.fid = RMM_RMI_REQ_COMPLETE
  /\ op.c.src = SMC_FROM_REALM /\ ~pre.rmm_boot_failed

\* C15: a request-complete from the Realm world that finds realm_created
\* set with pending identifier X clears realm_created, arms the timer in
\* creation mode for REALM_RPV_GET_TIMER_SECONDS with realm_descriptor = X
\* and the awaiting-fetch flag set, and clears realm_created_id to 0.
C15_PostCreateCompletion ==
  (IsComplete /\ pre.realm_created)
    => /\ ~realm_created
       /\ realm_descriptor = pre.realm_created_id
       /\ timer_realm_created
       /\ Armed(ev, REALM_RPV_GET_TIMER_SECONDS)
       /\ TimerSetFor(REALM_RPV_GET_TIMER_SECONDS)
       /\ realm_created_id = 0

\* C16: a request-complete from the Realm world that finds realm_created
\* clear and realm_getting_rpv set stores its first argument through
\* rmmd_timer_set_expiration (the fallback for 0), clears realm_getting_rpv
\* and leaves realm_created, the registry and the timer registers as they
\* were.
C16_FetchCompletion ==
  (IsComplete /\ ~pre.realm_created /\ pre.realm_getting_rpv)
    => /\ timer_expiration = Stored(op.c.x1)
       /\ ~realm_getting_rpv
       /\ ~realm_created /\ realm_created_id = pre.realm_created_id
       /\ realm_values = pre.realm_values
       /\ realm_count = pre.realm_count
       /\ cntps_ctl = pre.cntps_ctl /\ cntps_cval = pre.cntps_cval
       /\ Count(ev, "arm") = 0 /\ Count(ev, "disarm") = 0

\* a fetch completion arrives while the timer is armed and replaces a
\* duration stored earlier
C16_Witness ==
  /\ IsComplete /\ ~pre.realm_created /\ pre.realm_getting_rpv
  /\ HasBit(pre.cntps_ctl, CNTP_CTL_ENABLE_BIT)
  /\ pre.timer_expiration # 0
  /\ timer_expiration # pre.timer_expiration

\* C17: every request-complete trapped from the Realm world with the
\* boot-failure latch clear is forwarded to the Normal world as a return
\* carrying its argument words x1..x5, whether realm_created is set,
\* realm_getting_rpv is set, or neither.
C17_CompletionForwarded ==
  IsComplete
    => ret = [kind |-> "fwd", dst |-> SMC_FROM_NON_SECURE,
              regs |-> <<op.c.x1, op.c.x2, op.c.x3, op.c.x4, op.c.x5>>]

\* C18: every call on the RMI channel trapped from the Realm world whose
\* function identifier is not request-complete is answered SMC_UNK and is
\* forwarded to no world, create, activate and fetch-instance-value
\* included.
C18_RealmCallRejected ==
  (op.name = "rmi" /\ op.c.src = SMC_FROM_REALM
   /\ op.c.fid # RMM_RMI_REQ_COMPLETE /\ ~pre.rmm_boot_failed)
    => (ret = UnkRet /\ ret.kind # "fwd")

\* C19: every call on the RMI channel of Normal origin that arrives with
\* the boot-failure latch clear is forwarded to the Realm world, once, with
\* its function identifier and argument words, whatever the function
\* identifier; the router never answers it itself.
C19_NormalCallForwarded ==
  (op.name = "rmi" /\ op.c.src = SMC_FROM_NON_SECURE
   /\ ~pre.rmm_boot_failed)
    => (ForwardedToRealm(op.c) /\ ~panicked)

\* no record of realm rd holds an expiration
NothingStoredFor(rd) ==
  \A i \in 0..(realm_count - 1) :
    realm_values[i].rd = rd => realm_values[i].timer_expiration = 0

\* C20: the expiration activate uses is per realm: after a fetch for realm
\* X completed with a value v other than the fallback, an activate of
\* another registered realm, whose record holds no expiration, does not arm
\* the timer for v.
C20_ExpirationPerRealm ==
  (At("s8_other_activated")
   /\ get_realm_info_by_rd(Cur, op.c.x1) # NULL
   /\ NothingStoredFor(op.c.x1)
   /\ scn.v > REALM_DESTROY_TIMER_SECONDS)
    => ~Armed(ev, scn.v)

\* C21: whenever the timer handler completes after the timer's own
\* interrupt, the timer is disabled (enable bit clear), in either branch
\* and whether or not a realm descriptor is on record.
C21_HandlerDisarms ==
  (op.name = "timer" /\ op.irq = EL3_TIMER_IRQ /\ ~panicked)
    => ~HasBit(cntps_ctl, CNTP_CTL_ENABLE_BIT)

\* the synthetic calls of an invocation are exactly this one / none
OneSynth(fid, rd) == Count(ev, "synth") = 1 /\ Synth(ev, fid, rd)

\* the invocation armed the timer for the fetch delay (creation mode)
CreationArm ==
  /\ op.name = "rmi" /\ Armed(ev, REALM_RPV_GET_TIMER_SECONDS)
  /\ op.c.fid = RMM_RMI_REQ_COMPLETE

\* the invocation armed the timer in setup mode (activate)
SetupArm ==
  /\ op.name = "rmi" /\ Count(ev, "arm") = 1
  /\ op.c.fid = RMI_REALM_ACTIVATE_FID

\* C22: the handler picks its synthetic call by the awaiting-fetch flag
\* alone.  A creation-mode arm for X sets the flag and binds X; a fire that
\* finds the flag set clears it and issues one fetch-instance-value for the
\* realm on record (none when none is on record); a fire that finds it
\* clear leaves it clear and issues destroy-all-data; a setup-mode arm
\* clears the flag; nothing else changes it.
C22_CallChosenByFlag ==
  /\ CreationArm
       => (timer_realm_created /\ realm_descriptor = pre.realm_created_id)
  /\ SetupArm => ~timer_realm_created
  /\ (op.name = "timer" /\ ~panicked)
       => /\ ~timer_realm_created
          /\ realm_descriptor = pre.realm_descriptor
          /\ pre.realm_descriptor = 0 => Count(ev, "synth") = 0
          /\ (pre.realm_descriptor # 0 /\ pre.timer_realm_created)
               => OneSynth(RMI_RPV_GET_FID, pre.realm_descriptor)
          /\ (pre.realm_descriptor # 0 /\ ~pre.timer_realm_created)
               => OneSynth(RMI_DATA_DESTROY_ALL_FID, pre.realm_descriptor)
  /\ (~Idle /\ timer_realm_created # pre.timer_realm_created)
       => (CreationArm \/ SetupArm \/ op.name = "timer")

\* a fire after an earlier fire, with no creation-mode arm since, issues
\* destroy-all-data
C22_Witness ==
  /\ op.name = "timer" /\ op.irq = EL3_TIMER_IRQ
  /\ pre.timer_triggered /\ ~pre.timer_realm_created
  /\ pre.realm_descriptor # 0
  /\ OneSynth(RMI_DATA_DESTROY_ALL_FID, pre.realm_descriptor)

\* C23: there is one comparator: whatever was pending, after an invocation
\* that arms the timer the only expiry is that of its last arm, the counter
\* at the arm plus that arm's duration; durations are not added.
C23_ArmOverwrites ==
  (~Idle /\ Count(ev, "arm") >= 1)
    => \E i \in 1..Len(ev) :
         /\ ev[i].e = "arm"
         /\ \A j \in (i + 1)..Len(ev) : ev[j].e # "arm"
         /\ ev[i].b = timer_expire(cntpct, ev[i].a, CntFrq)
         /\ cntps_cval = ev[i].b
         /\ cntps_ctl = CNTP_CTL_ENABLE_BIT

\* an arm for the fetch delay replaces a pending expiry
C23_Witness ==
  /\ ~Idle /\ Armed(ev, REALM_RPV_GET_TIMER_SECONDS)
  /\ HasBit(pre.cntps_ctl, CNTP_CTL_ENABLE_BIT)
  /\ pre.cntps_cval > cntpct
  /\ cntps_cval = timer_expire(cntpct, REALM_RPV_GET_TIMER_SECONDS, CntFrq)


\* events that record a write to the registry or to a lifecycle variable
LifecycleEv ==
  {"registry", "created", "created_id", "getting_rpv", "getting_rpv_id"}

\* C24 as stated: in every router step each registry and lifecycle write
\* precedes the arm of the timer and the forward, the clearing of the
\* pending-create identifier included.
C24_AsStated ==
  ~Idle => \A i, j \in 1..Len(ev) :
             (ev[i].e \in LifecycleEv /\ ev[j].e \in {"arm", "forward"})
               => i < j

\* C24, amended: in every router step the forward is the last thing done,
\* and each registry and lifecycle write precedes the arm of the timer, but
\* for one: on the completion that follows a create realm_created_id is
\* cleared after the timer has been armed with it.
C24_MutationsBeforeArmAndForward ==
  ~Idle => \A i, j \in 1..Len(ev) :
             /\ (ev[i].e \in LifecycleEv /\ ev[j].e = "forward") => i < j
             /\ (ev[i].e \in LifecycleEv /\ ev[j].e = "arm" /\ j < i)
                  => /\ ev[i] = Ev("created_id", 0, 0)
                     /\ op.name = "rmi"
                     /\ op.c.fid = RMM_RMI_REQ_COMPLETE
                     /\ pre.realm_created
                     /\ ev[j].a = REALM_RPV_GET_TIMER_SECONDS

\* a completion that follows a create: flag and fetch identifier written,
\* timer armed, pending-create identifier cleared, call forwarded
C24_Witness ==
  /\ op.name = "rmi" /\ op.c.fid = RMM_RMI_REQ_COMPLETE
  /\ pre.realm_created /\ pre.realm_created_id # 0
  /\ Len(ev) = 5
  /\ ev[1] = Ev("created", 0, 0)
  /\ ev[2] = Ev("getting_rpv_id", pre.realm_created_id, 0)
  /\ ev[3].e = "arm"
  /\ ev[4] = Ev("created_id", 0, 0)
  /\ ev[5] = Ev("forward", 0, 0)


\* C25: when the handler is entered while the timer's status bit does not
\* confirm the expiry, or for an interrupt that is not the timer's line, it
\* stops on the failed assertion and issues no synthetic call.
C25_SpuriousEntryAborts ==
  (op.name = "timer"
   /\ (op.irq # EL3_TIMER_IRQ
       \/ ~get_cntp_ctl_istatus(read_cntps_ctl_el1(pre))))
    => (panicked /\ Count(ev, "synth") = 0)

\* the variables a rejected call is to leave alone
Kept(s) ==
  <<s.realm_values, s.realm_count, s.realm_created, s.realm_created_id,
    s.realm_getting_rpv, s.timer_expiration, s.timer_realm_created,
    s.cntps_ctl, s.cntps_cval>>

\* C28: a call on the RMI channel that is answered SMC_UNK (latch set,
\* Secure origin, or Realm origin with a function identifier other than
\* request-complete) leaves the registry, the lifecycle variables, the
\* stored expiration, the awaiting-fetch flag and the timer registers as
\* they were.
C28_RejectedCallChangesNothing ==
  (op.name = "rmi" /\ ret = UnkRet) => Kept(Cur) = Kept(pre)

\* C29: realm_created and realm_getting_rpv are never both set.
C29_CreatedAndFetchingExclusive ==
  ~(realm_created /\ realm_getting_rpv)

\* C30: once realm X has been activated (after its create and any other
\* creates completed), a destroy-all-data call the handler issues at the
\* next fire carries X, the identifier given to that activate.
C30_DestroyCarriesActivateArgument ==
  At("d_fired")
    => \A i \in 1..Len(ev) :
         (ev[i].e = "synth" /\ ev[i].a = RMI_DATA_DESTROY_ALL_FID)
           => ev[i].b = scn.X


StepsMatchHandler ==
  (/\ pc = "run" /\ op.name = "rmi" /\ Count(ev, "ack") = 0
   /\ \A i \in 1..Len(ev) :
        ev[i].e = "arm" => ev[i].b = timer_expire(cntpct, ev[i].a, CntFrq))
    => [Cur EXCEPT !.ev = ev, !.ret = ret, !.panicked = panicked]
         = rmmd_rmi_handler(pre, op.c)

C31_DestroyLookupFinds ==
  ~Idle => Count(ev, "null_deref") = 0

\* C32: every assertion of setting_timer holds whenever it has run: the
\* routing bits are set, the value read back from the control register is
\* greater than the counter, the enable bit is set and the mask bit clear,
\* so that no arm stops the core.
C32_ArmAssertionsHold ==
  (~Idle /\ Count(ev, "arm") >= 1 /\ Count(ev, "disarm") = 0)
    => /\ read_scr_el3_fiq /\ read_scr_el3_irq
       /\ read_cntps_ctl_el1(Cur) > cntpct
       /\ HasBit(read_cntps_ctl_el1(Cur), CNTP_CTL_ENABLE_BIT)
       /\ ~HasBit(read_cntps_ctl_el1(Cur), CNTP_CTL_IMASK_BIT)
       /\ Count(ev, "assert_fail") = 0

\* C34: rmmd_timer_set_expiration never stores 0: an invocation that
\* changes the stored expiration is a fetch completion, and it leaves the
\* fallback REALM_DESTROY_TIMER_SECONDS when its argument is 0 and the
\* argument itself otherwise.
C34_StoredExpirationNonZero ==
  /\ (~Idle /\ timer_expiration # pre.timer_expiration)
       => /\ timer_expiration # 0
          /\ IsComplete /\ pre.realm_getting_rpv
          /\ op.c.x1 = 0 => timer_expiration = REALM_DESTROY_TIMER_SECONDS
          /\ op.c.x1 # 0 => timer_expiration = op.c.x1
  /\ (IsComplete /\ ~pre.realm_created /\ pre.realm_getting_rpv)
       => timer_expiration # 0

\* a fetch completion that carries 0 replaces a stored duration by the
\* fallback
C34_Witness ==
  /\ IsComplete /\ pre.realm_getting_rpv /\ ~pre.realm_created
  /\ op.c.x1 = 0
  /\ pre.timer_expiration # REALM_DESTROY_TIMER_SECONDS
  /\ timer_expiration = REALM_DESTROY_TIMER_SECONDS


\* C33: for every duration a fetch completion can store, the comparator an
\* activate programs is the counter plus duration * frequency / 100 in
\* exact arithmetic, with no wrap-around at the word size: it is never
\* earlier than the counter.
C33_ComparatorExact ==
  (op.name = "rmi" /\ op.c.fid = RMI_REALM_ACTIVATE_FID
   /\ Count(ev, "arm") = 1)
    => /\ cntps_cval = cntpct + ((pre.timer_expiration * CntFrq) \div 100)
       /\ cntps_cval >= cntpct

====
